---- MODULE Spec2Model ----
(***************************************************************************)
(* Model of docs/source/_ext/dags.py: the Sphinx "autodag" extension.      *)
(*                                                                         *)
(* DagDocumenter.generate documents one module: it emits the module's      *)
(* docstring and then, for every DAG found among the module's members, a   *)
(* Graphviz diagram, the schedule and one DagTaskDocumenter block per      *)
(* task.  The state is the documented module (its members and the DAG and  *)
(* task objects they are bound to), the Sphinx environment, the converted  *)
(* directive options and the trace of what the last invocation did: every  *)
(* add_line, every logger call and every file written, in program order.   *)
(***************************************************************************)
EXTENDS Integers, Sequences, FiniteSets, TLC

VARIABLES module, dags, tasks, env, raw, options, target, trace, pc

vars == <<module, dags, tasks, env, raw, options, target, trace, pc>>

(* Bounds of the model. *)
MaxDags == 2
MaxTasks == 2

(***************************************************************************)
(* Python values.  A str is the sequence of its lines (its split on the    *)
(* newline).  A backquote of the source is written ' in the strings here.  *)
(***************************************************************************)
PyNone == [t |-> "None", v |-> <<>>]
PyStr(lines) == [t |-> "str", v |-> lines]
PyBool(b) == [t |-> "bool", v |-> IF b THEN <<"True">> ELSE <<"False">>]
PyAbsent == [t |-> "absent", v |-> <<>>]

\* Python truthiness: None, False and "" are false.
truthy(x) ==
    CASE x.t = "None" -> FALSE
      [] x.t = "bool" -> x.v = <<"True">>
      [] x.t = "str" -> x.v # <<"">>
      [] OTHER -> FALSE

\* the builtin bool, used as converter of the hide_* options
bool(x) == PyBool(truthy(x))

\* the builtin str, used as converter of title and caption
str(x) ==
    CASE x.t = "str" -> x
      [] x.t = "None" -> PyStr(<<"None">>)
      [] OTHER -> PyStr(x.v)

hasattr_str(x) == x.t # "absent" /\ x.t = "str"

\* the text of a one-line str
text_of(x) == IF x.t = "str" /\ Len(x.v) > 0 THEN x.v[1] ELSE "None"

(***************************************************************************)
(* The external converters.                                                *)
(***************************************************************************)
\* m2r converts one markdown line to reStructuredText lines: a heading becomes
\* the title and its underline, a link becomes a reference
m2r_line(l) ==
    CASE l = "## Head" -> <<"Head", "-------">>
      [] l = "[a](b)" -> <<"'a <b>'_">>
      [] OTHER -> <<l>>

RECURSIVE m2r_lines(_, _)
m2r_lines(lines, i) ==
    IF i > Len(lines) THEN <<>> ELSE m2r_line(lines[i]) \o m2r_lines(lines, i + 1)

\* m2r.convert: the converted lines, inside a leading and a trailing newline
m2r_convert(lines) == <<"">> \o m2r_lines(lines, 1) \o <<"">>

\* cron_descriptor.get_description
get_description(expr) ==
    CASE expr = "* * * * *" -> "Every minute"
      [] expr = "0 0 * * *" -> "At 12:00 AM"
      [] expr = "0 12 * * 1" -> "At 12:00 PM, only on Monday"
      [] OTHER -> "?"

(***************************************************************************)
(* Paths are sequences of components below the root.                       *)
(***************************************************************************)
RECURSIVE join_from(_, _)
join_from(p, i) ==
    IF i > Len(p) THEN ""
    ELSE IF i = Len(p) THEN p[i]
    ELSE p[i] \o "/" \o join_from(p, i + 1)

rel_str(p) == IF p = <<>> THEN "." ELSE join_from(p, 1)
abs_str(p) == "/" \o join_from(p, 1)

\* os.path.normpath of an absolute path
RECURSIVE normpath_from(_, _, _)
normpath_from(p, i, acc) ==
    IF i > Len(p) THEN acc
    ELSE IF p[i] = "." THEN normpath_from(p, i + 1, acc)
    ELSE IF p[i] = ".."
         THEN normpath_from(p, i + 1,
                  IF acc = <<>> THEN acc ELSE SubSeq(acc, 1, Len(acc) - 1))
    ELSE normpath_from(p, i + 1, Append(acc, p[i]))

normpath(p) == normpath_from(p, 1, <<>>)

RECURSIVE commonprefix_len(_, _, _)
commonprefix_len(a, b, i) ==
    IF i < Len(a) /\ i < Len(b) /\ a[i + 1] = b[i + 1]
    THEN commonprefix_len(a, b, i + 1)
    ELSE i

\* os.path.relpath(path, start), both absolute
relpath(path, start) ==
    LET path_list == normpath(path)
        start_list == normpath(start)
        i == commonprefix_len(start_list, path_list, 0)
    IN  [k \in 1..(Len(start_list) - i) |-> ".."]
        \o SubSeq(path_list, i + 1, Len(path_list))

\* a path taken relative to the document itself, not to its directory
parent_dropped(p) == p

\* pathlib: Path(caller).parent
parent(p) == IF p = <<>> THEN p ELSE SubSeq(p, 1, Len(p) - 1)

\* env.doc2path(docname): the absolute path of the document source
doc2path(e) ==
    e.srcdir \o SubSeq(e.docname, 1, Len(e.docname) - 1)
    \o <<e.docname[Len(e.docname)] \o ".rst">>

(***************************************************************************)
(* The trace.  text is what the code wrote; tag names the statement that   *)
(* wrote it, dag the graph being processed (0: none), path the components  *)
(* of a path the text carries and data the content of a file written.      *)
(***************************************************************************)
Ev(kind, text, tag, d, path) ==
    [ev |-> kind, text |-> text, tag |-> tag, dag |-> d, path |-> path,
     data |-> PyNone]

add_line(s, text, tag, d) ==
    [s EXCEPT !.trace = Append(@, Ev("line", text, tag, d, <<>>))]

add_lines(s, lines, tag, d) ==
    [s EXCEPT !.trace =
        @ \o [i \in 1..Len(lines) |-> Ev("line", lines[i], tag, d, <<>>)]]

logger_warning(s, text, tag, d) ==
    [s EXCEPT !.trace = Append(@, Ev("warning", text, tag, d, <<>>))]

logger_info(s, text, tag, d, path) ==
    [s EXCEPT !.trace = Append(@, Ev("info", text, tag, d, path))]

(***************************************************************************)
(* DagTaskDocumenter                                                       *)
(***************************************************************************)
qual_name(x) == x.module \o "." \o x.type

\* ClassDocumenter.generate: the directive header of the documented member
super_generate(s, fullname, d) ==
    add_line(s, ".. py:attribute:: " \o fullname, "task.super", d)

DagTaskDocumenter_generate(s, fullname, ref, d) ==
    LET op == s.tasks[ref]
        s0 == super_generate(s, fullname, d)
        s1 == IF hasattr_str(op.doc_rst)
              THEN add_lines(s0, op.doc_rst.v, "task.doc_rst", d)
              ELSE s0
        s2 == IF hasattr_str(op.doc_md)
              THEN add_lines(s1, m2r_convert(op.doc_md.v), "task.doc_md", d)
              ELSE IF hasattr_str(op.auto_doc)
              THEN add_line(
                       add_lines(add_line(s1, " ", "task.auto_doc.pre", d),
                                 op.auto_doc.v, "task.auto_doc", d),
                       " ", "task.auto_doc.post", d)
              ELSE s1
        s3 == add_line(s2, " ", "task.blank", d)
    IN  add_line(s3, ":Operator: :class:'~" \o qual_name(op) \o "'",
                 "task.operator", d)

(***************************************************************************)
(* DagDocumenter                                                           *)
(***************************************************************************)
OptionNames == {"hide_diagram", "hide_tasks", "hide_schedule", "title", "caption"}

\* option_spec: the converter of each option
option_spec(name, value) ==
    CASE name \in {"hide_diagram", "hide_tasks", "hide_schedule"} -> bool(value)
      [] OTHER -> str(value)

\* options.get(name, default)
options_get(opts, name, default) ==
    IF name \in DOMAIN opts THEN opts[name] ELSE default

\* sphinx's process_documenter_options: every option given goes through its
\* converter; an option given without a value arrives as None
process_documenter_options(given) ==
    [n \in DOMAIN given |-> option_spec(n, given[n])]

is_dag(mbr) == mbr.kind = "DAG"
is_operator(mbr) == mbr.kind = "BaseOperator"

\* get_dag_tasks without its warning
get_dag_tasks_quiet(s, mod, d) ==
    [s |-> s,
     ret |-> LET RECURSIVE sel(_)
                 sel(i) == IF i > Len(mod.members) THEN <<>>
                           ELSE (IF mod.members[i].kind = "BaseOperator"
                                    /\ s.tasks[mod.members[i].ref].dag = d
                                 THEN <<mod.members[i]>> ELSE <<>>) \o sel(i + 1)
             IN  sel(1)]

RECURSIVE select_tasks(_, _, _, _)
select_tasks(s, members, i, d) ==
    IF i > Len(members) THEN <<>>
    ELSE LET mbr == members[i]
             rest == select_tasks(s, members, i + 1, d)
         IN  IF is_operator(mbr) /\ s.tasks[mbr.ref].dag = d
             THEN <<mbr>> \o rest
             ELSE rest

get_dag_tasks(s, mod, d) ==
    LET found == select_tasks(s, mod.members, 1, d)
    IN  [s |-> IF Len(found) = 0
               THEN logger_warning(s,
                        "Could not find a single task for DAG " \o s.dags[d].dag_id,
                        "warn.no_task", d)
               ELSE s,
         ret |-> found]

\* get_dags without its warning
get_dags_quiet(s, mod, e) ==
    [s |-> s,
     ret |-> LET RECURSIVE sel(_)
                 sel(i) == IF i > Len(mod.members) THEN <<>>
                           ELSE (IF mod.members[i].kind = "DAG"
                                 THEN <<mod.members[i].ref>> ELSE <<>>) \o sel(i + 1)
             IN  sel(1)]

RECURSIVE select_dags(_, _)
select_dags(members, i) ==
    IF i > Len(members) THEN <<>>
    ELSE IF is_dag(members[i])
         THEN <<members[i].ref>> \o select_dags(members, i + 1)
         ELSE select_dags(members, i + 1)

get_dags(s, mod, e) ==
    LET found == select_dags(mod.members, 1)
    IN  [s |-> IF Len(found) = 0
               THEN logger_warning(s,
                        "Could not find a single DAG in "
                            \o rel_str(e.docname) \o ".rst",
                        "warn.no_dag", 0)
               ELSE s,
         ret |-> found]

RECURSIVE repeat(_, _)
repeat(c, n) == IF n <= 0 THEN "" ELSE c \o repeat(c, n - 1)

add_title(s, title, sep, d) ==
    LET s1 == add_line(s, " ", "title.pre", d)
        s2 == add_line(s1, title, "title.text", d)
        s3 == add_line(s2, repeat(sep, Len(title)), "title.rule", d)
    IN  add_line(s3, " ", "title.post", d)

\* add_schedule writing the schedule expression itself, not its description
add_schedule_raw(s, d) ==
    add_line(add_line(s, "Schedule interval", "schedule.title", d),
             "  " \o text_of(s.dags[d].schedule_interval), "schedule.body", d)

add_schedule(s, d) ==
    LET dag == s.dags[d]
        s1 == add_line(s, "Schedule interval", "schedule.title", d)
    IN  IF dag.schedule_interval # PyNone
        THEN add_line(s1, "  " \o get_description(text_of(dag.schedule_interval)),
                      "schedule.body", d)
        ELSE add_line(s1, "  None", "schedule.body", d)

RECURSIVE for_tasks(_, _, _, _, _)
for_tasks(s, mod, found, i, d) ==
    IF i > Len(found) THEN s
    ELSE LET s1 == IF i = 1 THEN add_title(s, "Tasks", "=", d) ELSE s
             s2 == DagTaskDocumenter_generate(
                       s1, mod.fullname \o "." \o found[i].name, found[i].ref, d)
         IN  for_tasks(s2, mod, found, i + 1, d)

add_tasks(s, mod, d) ==
    LET r == get_dag_tasks(s, mod, d)
    IN  for_tasks(r.s, mod, r.ret, 1, d)

\* airflow's render_dag: a Digraph labelled with the dag_id
render_dag(dag) == [label |-> PyStr(<<dag.dag_id>>)]

\* save_dot labelling the diagram through the DAG: dag.dag_id = title
save_dot_renaming(s, d, graph_out, title) ==
    LET s1 == IF title.t = "str"
              THEN [s EXCEPT !.dags[d].dag_id = text_of(title)]
              ELSE s
    IN  [s1 EXCEPT !.trace =
            Append(@, [Ev("write", abs_str(graph_out), "diagram.save", d, graph_out)
                          EXCEPT !.data = PyStr(<<s1.dags[d].dag_id>>)])]

\* dot = render_dag(dag); dot.graph_attr["label"] = title; dot.save(graph_out)
save_dot(s, d, graph_out, title) ==
    LET dot == [render_dag(s.dags[d]) EXCEPT !.label = title]
    IN  [s EXCEPT !.trace =
            Append(@, [Ev("write", abs_str(graph_out), "diagram.save", d, graph_out)
                          EXCEPT !.data = dot.label])]

add_diagram(s, e, d, title, caption) ==
    LET dag == s.dags[d]
        static == e.html_static_path
        caller == doc2path(e)
        graph_out == e.srcdir \o static \o <<dag.dag_id \o ".dot">>
        s1 == logger_info(s, "Writing to " \o abs_str(graph_out),
                          "diagram.info", d, graph_out)
        s2 == save_dot(s1, d, graph_out, title)
        s3 == add_line(s2, "Diagram", "diagram.heading", d)
        rel == relpath(graph_out, parent(caller))
        s4 == [s3 EXCEPT !.trace =
                  Append(@, Ev("line", "  .. graphviz:: " \o rel_str(rel),
                               "diagram.graphviz", d, rel))]
    IN  IF truthy(caption)
        THEN add_line(s4, "    :caption: " \o text_of(caption),
                      "diagram.caption", d)
        ELSE s4

\* get_doc(): the docstring as a list of lists of lines
get_doc(mod) == mod.doc

add_md_docstring(s, mod, md) ==
    LET s1 == add_line(s, ".. py:module:: " \o mod.fullname, "module.directive", 0)
        s2 == add_line(s1, "", "module.blank", 0)
    IN  IF Len(md) > 0
        THEN add_lines(add_line(s2, "", "module.blank2", 0),
                       m2r_convert(md[1]), "module.doc", 0)
        ELSE s2

\* for_dag with the schedule written before the diagram
for_dag_schedule_first(s, mod, e, opts, d) ==
    LET s1 == IF ~truthy(options_get(opts, "hide_schedule", PyBool(FALSE)))
              THEN add_schedule(s, d)
              ELSE s
        s2 == IF ~truthy(options_get(opts, "hide_diagram", PyBool(FALSE)))
              THEN add_diagram(s1, e, d,
                               options_get(opts, "title", PyNone),
                               options_get(opts, "caption", PyNone))
              ELSE s1
    IN  IF ~truthy(options_get(opts, "hide_tasks", PyBool(FALSE)))
        THEN add_tasks(s2, mod, d)
        ELSE s2

\* the body of the loop of generate over the DAGs
for_dag(s, mod, e, opts, d) ==
    LET s1 == IF ~truthy(options_get(opts, "hide_diagram", PyBool(FALSE)))
              THEN add_diagram(s, e, d,
                               options_get(opts, "title", PyNone),
                               options_get(opts, "caption", PyNone))
              ELSE s
        s2 == IF ~truthy(options_get(opts, "hide_schedule", PyBool(FALSE)))
              THEN add_schedule(s1, d)
              ELSE s1
    IN  IF ~truthy(options_get(opts, "hide_tasks", PyBool(FALSE)))
        THEN add_tasks(s2, mod, d)
        ELSE s2

RECURSIVE for_dags(_, _, _, _, _, _)
for_dags(s, mod, e, opts, found, i) ==
    IF i > Len(found) THEN s
    ELSE for_dags(for_dag(s, mod, e, opts, found[i]), mod, e, opts, found, i + 1)

DagDocumenter_generate(s, mod, e, opts) ==
    LET s1 == add_md_docstring(s, mod, get_doc(mod))
        r == get_dags(s1, mod, e)
    IN  for_dags(r.s, mod, e, opts, r.ret, 1)

(***************************************************************************)
(* The documented modules and the Sphinx projects the model draws from.    *)
(***************************************************************************)
Schedules ==
    << PyNone, PyStr(<<"* * * * *">>), PyStr(<<"0 0 * * *">>) >>

DocVariants ==
    << [doc_rst |-> PyNone, doc_md |-> PyStr(<<"## Head", "[a](b)">>), auto_doc |-> PyAbsent],
       [doc_rst |-> PyStr(<<"*rst*">>), doc_md |-> PyNone, auto_doc |-> PyAbsent],
       [doc_rst |-> PyNone, doc_md |-> PyNone, auto_doc |-> PyAbsent] >>

\* the Sphinx projects: source directory, html_static_path[0], the document
\* holding the directive and the docstring of the documented module
Projects ==
    { [srcdir |-> <<"proj", "docs">>, html_static_path |-> <<"_static">>,
       docname |-> <<"index">>, doc |-> <<>>],
      [srcdir |-> <<"proj", "docs">>, html_static_path |-> <<"_static">>,
       docname |-> <<"dags", "etl">>, doc |-> << <<"## Head", "[a](b)", "">> >>],
      [srcdir |-> <<"proj", "docs">>, html_static_path |-> <<"..", "assets">>,
       docname |-> <<"dags", "etl">>, doc |-> << <<"Nightly load.">> >>] }

dag_object(i, shift) ==
    [dag_id |-> "dag_" \o ToString(i),
     schedule_interval |-> Schedules[((i + shift) % Len(Schedules)) + 1]]

task_object(j, d) ==
    LET docs == DocVariants[((j - 1) % Len(DocVariants)) + 1]
    IN  [dag |-> d, doc_rst |-> docs.doc_rst, doc_md |-> docs.doc_md,
         auto_doc |-> docs.auto_doc,
         module |-> "airflow.operators.bash_operator", type |-> "BashOperator"]

\* a task created inside a loop or a function is attached to its DAG but bound
\* to no name of the module: the last `unbound` tasks are such
RECURSIVE task_members(_, _, _)
task_members(unbound, j, n) ==
    IF j > n - unbound THEN <<>>
    ELSE << [name |-> "task_" \o ToString(j), kind |-> "BaseOperator", ref |-> j] >>
         \o task_members(unbound, j + 1, n)

\* the members of the module as get_module_members returns them: sorted by name
module_members(nd, nt, unbound) ==
    [i \in 1..nd |-> [name |-> "dag_" \o ToString(i), kind |-> "DAG", ref |-> i]]
    \o << [name |-> "os", kind |-> "module", ref |-> 0] >>
    \o task_members(unbound, 1, nt)

HideValues == {PyAbsent, PyNone, PyStr(<<"True">>)}

\* title and caption: neither given, or both
TextValues ==
    { [title |-> PyAbsent, caption |-> PyAbsent],
      [title |-> PyStr(<<"Nightly">>), caption |-> PyStr(<<"Fig. 1">>)] }

\* the options of a directive as docutils hands them over: only those given,
\* one given without a value as None
raw_options(hd, ht, hs, ti, ca) ==
    LET all == [n \in OptionNames |->
                   CASE n = "hide_diagram" -> hd
                     [] n = "hide_tasks" -> ht
                     [] n = "hide_schedule" -> hs
                     [] n = "title" -> ti
                     [] OTHER -> ca]
    IN  [n \in {m \in OptionNames : all[m] # PyAbsent} |-> all[n]]

Init ==
    \E nd \in 0..MaxDags, nt \in 0..MaxTasks, shift \in 0..(Len(Schedules) - 1) :
      \E owner \in [1..nt -> 1..nd], unbound \in 0..nt, prj \in Projects :
        /\ dags = [i \in 1..nd |-> dag_object(i, shift)]
        /\ tasks = [j \in 1..nt |-> task_object(j, owner[j])]
        /\ module = [fullname |-> "dags.etl", doc |-> prj.doc,
                     members |-> module_members(nd, nt, unbound)]
        /\ env = [srcdir |-> prj.srcdir, docname |-> prj.docname,
                  html_static_path |-> prj.html_static_path]
        /\ raw = <<>>
        /\ options = <<>>
        /\ target = 0
        /\ trace = <<>>
        /\ pc = "idle"

\* the autodag directive is read: the options given are converted
Directive ==
    /\ pc = "idle"
    /\ \E hd \in HideValues, ht \in HideValues, hs \in HideValues, tx \in TextValues :
         /\ raw' = raw_options(hd, ht, hs, tx.title, tx.caption)
         /\ options' = process_documenter_options(raw')
    /\ pc' = "autodag"
    /\ UNCHANGED <<module, dags, tasks, env, target, trace>>

\* DagDocumenter.generate
Generate ==
    /\ pc = "autodag"
    /\ LET s == DagDocumenter_generate(
                    [trace |-> <<>>, dags |-> dags, tasks |-> tasks],
                    module, env, options)
       IN  /\ trace' = s.trace
           /\ dags' = s.dags
           /\ tasks' = s.tasks
    /\ pc' = "dag_done"
    /\ UNCHANGED <<module, env, raw, options, target>>

\* DagTaskDocumenter.generate on a member of the module that is a task;
\* target is the task the documenter was made for
TaskGenerate ==
    /\ pc = "idle"
    /\ \E i \in 1..Len(module.members) :
         /\ is_operator(module.members[i])
         /\ LET mbr == module.members[i]
                s == DagTaskDocumenter_generate(
                         [trace |-> <<>>, dags |-> dags, tasks |-> tasks],
                         module.fullname \o "." \o mbr.name, mbr.ref, 0)
            IN  /\ target' = mbr.ref
                /\ trace' = s.trace
                /\ dags' = s.dags
                /\ tasks' = s.tasks
    /\ pc' = "task_done"
    /\ UNCHANGED <<module, env, raw, options>>

\* the build goes on to the next directive, with a new documenter
NextDirective ==
    /\ pc \in {"dag_done", "task_done"}
    /\ pc' = "idle"
    /\ raw' = <<>>
    /\ options' = <<>>
    /\ target' = 0
    /\ trace' = <<>>
    /\ UNCHANGED <<module, dags, tasks, env>>

Next == Directive \/ Generate \/ TaskGenerate \/ NextDirective

Spec == Init /\ [][Next]_vars

(***************************************************************************)
(* The task documenter alone, over every shape of a task's documentation   *)
(* attributes: missing, not a str, a str.                                  *)
(***************************************************************************)
DocValues(x) == {PyAbsent, PyNone, PyStr(<<x, "more">>)}

OperatorTypes ==
    { [module |-> "airflow.operators.bash_operator", type |-> "BashOperator"],
      [module |-> "airflow.operators.python_operator", type |-> "PythonOperator"] }

InitTask ==
    \E rst \in DocValues("*rst*"), md \in DocValues("[a](b)"),
       auto \in DocValues("auto"), ty \in OperatorTypes, prj \in Projects :
      /\ dags = <<dag_object(1, 0)>>
      /\ tasks = << [dag |-> 1, doc_rst |-> rst, doc_md |-> md, auto_doc |-> auto,
                     module |-> ty.module, type |-> ty.type] >>
      /\ module = [fullname |-> "dags.etl", doc |-> prj.doc,
                   members |-> module_members(1, 1, 0)]
      /\ env = [srcdir |-> prj.srcdir, docname |-> prj.docname,
                html_static_path |-> prj.html_static_path]
      /\ raw = <<>>
      /\ options = <<>>
      /\ target = 0
      /\ trace = <<>>
      /\ pc = "idle"

NextTask == TaskGenerate \/ NextDirective

SpecTask == InitTask /\ [][NextTask]_vars

(***************************************************************************)
(* What the claims speak of.                                               *)
(***************************************************************************)
Done == pc = "dag_done"

\* the graphs of the module: the objects its members of type DAG are bound to
Graphs ==
    {module.members[i].ref :
        i \in {k \in 1..Len(module.members) : module.members[k].kind = "DAG"}}

\* the tasks attached to graph d
Attached(d) == {j \in DOMAIN tasks : tasks[j].dag = d}

\* the value generate sees for a hide_* option
Hidden(o) == IF o \in DOMAIN options THEN options[o].v = <<"True">> ELSE FALSE

\* where in the trace the statements tagged in tags acted for graph d
At(tags, d) == {i \in 1..Len(trace) : trace[i].tag \in tags /\ trace[i].dag = d}

\* the texts of the trace's events tagged tag, in order
RECURSIVE TextsFrom(_, _)
TextsFrom(tag, i) ==
    IF i > Len(trace) THEN <<>>
    ELSE (IF trace[i].tag = tag THEN <<trace[i].text>> ELSE <<>>)
         \o TextsFrom(tag, i + 1)

DiagramTags ==
    {"diagram.info", "diagram.save", "diagram.heading", "diagram.graphviz",
     "diagram.caption"}
ScheduleTags == {"schedule.title", "schedule.body"}
TaskTags ==
    {"warn.no_task", "title.pre", "title.text", "title.rule", "title.post",
     "task.super", "task.doc_rst", "task.doc_md", "task.auto_doc.pre",
     "task.auto_doc", "task.auto_doc.post", "task.blank", "task.operator"}
ModuleTags == {"module.directive", "module.blank", "module.blank2", "module.doc"}

SectionTags(o) ==
    CASE o = "hide_diagram" -> DiagramTags
      [] o = "hide_schedule" -> ScheduleTags
      [] OTHER -> TaskTags

\* C1: a module with exactly one graph, N tasks attached to it: generate emits
\* N task blocks when hide_tasks is not set and none when it is
C1_Claim ==
    (Done /\ Cardinality(Graphs) = 1) =>
        \A d \in Graphs :
            /\ "hide_tasks" \notin DOMAIN raw =>
                  Cardinality(At({"task.operator"}, d)) = Cardinality(Attached(d))
            /\ Hidden("hide_tasks") =>
                  Cardinality(At({"task.operator"}, d)) = 0

\* the directory of the calling document and the file of graph d
CallerDir == env.srcdir \o SubSeq(env.docname, 1, Len(env.docname) - 1)
DotFile(d) == env.srcdir \o env.html_static_path \o <<dags[d].dag_id \o ".dot">>

\* r, taken from the directory of the calling document, leads to the file of d
LeadsTo(r, d) ==
    /\ normpath(CallerDir \o r) = normpath(DotFile(d))
    /\ \A k \in 1..Len(r) :
          /\ r[k] # "."
          /\ (r[k] = ".." => \A m \in 1..k : r[m] = "..")

\* C2: with hide_diagram set no diagram line is emitted and no file written;
\* without it, for every graph exactly one file srcdir/static/dag_id.dot is
\* written, before the diagram lines, and the graphviz line names that file by
\* its path relative to the directory of the calling document
C2_Diagram ==
    Done =>
        IF Hidden("hide_diagram")
        THEN \A i \in 1..Len(trace) :
                trace[i].tag \notin DiagramTags /\ trace[i].ev # "write"
        ELSE /\ Cardinality({i \in 1..Len(trace) : trace[i].ev = "write"})
                    = Cardinality(Graphs)
             /\ \A d \in Graphs :
                  /\ Cardinality(At({"diagram.save"}, d)) = 1
                  /\ Cardinality(At({"diagram.heading"}, d)) = 1
                  /\ Cardinality(At({"diagram.graphviz"}, d)) = 1
                  /\ \A w \in At({"diagram.save"}, d) :
                        /\ trace[w].ev = "write"
                        /\ trace[w].path = DotFile(d)
                        /\ trace[w].text = abs_str(DotFile(d))
                        /\ \A h \in At({"diagram.heading", "diagram.graphviz",
                                         "diagram.caption"}, d) : w < h
                  /\ \A h \in At({"diagram.heading"}, d) :
                        /\ trace[h].text = "Diagram"
                        /\ At({"diagram.graphviz"}, d) = {h + 1}
                  /\ \A g \in At({"diagram.graphviz"}, d) :
                        /\ LeadsTo(trace[g].path, d)
                        /\ trace[g].text
                              = "  .. graphviz:: " \o rel_str(trace[g].path)

C2_Witness ==
    /\ Done /\ ~Hidden("hide_diagram")
    /\ Cardinality(Graphs) = 2
    /\ \E g \in 1..Len(trace) :
         /\ trace[g].tag = "diagram.graphviz"
         /\ trace[g].text = "  .. graphviz:: ../../assets/dag_2.dot"

\* C3: the schedule section, when emitted, is the title line and one body line:
\* "None" exactly when schedule_interval is None, else the description the
\* converter returns for the schedule expression
C3_Schedule ==
    (Done /\ ~Hidden("hide_schedule")) =>
        \A d \in Graphs :
            \E t \in 1..Len(trace) :
              /\ At({"schedule.title"}, d) = {t}
              /\ At({"schedule.body"}, d) = {t + 1}
              /\ trace[t].text = "Schedule interval"
              /\ (trace[t + 1].text = "  None"
                    <=> dags[d].schedule_interval = PyNone)
              /\ (dags[d].schedule_interval # PyNone =>
                    trace[t + 1].text
                        = "  " \o get_description(dags[d].schedule_interval.v[1]))

C3_Witness ==
    /\ Done /\ ~Hidden("hide_schedule")
    /\ \E d1, d2 \in Graphs :
         /\ dags[d1].schedule_interval = PyNone
         /\ dags[d2].schedule_interval = PyStr(<<"0 0 * * *">>)
         /\ \E i, j \in 1..Len(trace) :
              /\ trace[i].tag = "schedule.body" /\ trace[i].dag = d1
              /\ trace[i].text = "  None"
              /\ trace[j].tag = "schedule.body" /\ trace[j].dag = d2
              /\ trace[j].text = "  At 12:00 AM"

\* graph d has no task: the warning is logged for it and no Tasks header emitted
WarnedNoTask(d) ==
    /\ \E i \in At({"warn.no_task"}, d) :
          /\ trace[i].ev = "warning"
          /\ trace[i].text = "Could not find a single task for DAG " \o dags[d].dag_id
    /\ At({"title.text"}, d) = {}

\* C4 as stated: on every generate over a module whose graph has no tasks the
\* warning is logged for that graph and no Tasks header is emitted
C4_Claim ==
    Done => \A d \in Graphs : Attached(d) = {} => WarnedNoTask(d)

\* C4, amended: the same, on every generate for which hide_tasks is not set
C4_Warning ==
    (Done /\ ~Hidden("hide_tasks")) =>
        \A d \in Graphs : Attached(d) = {} => WarnedNoTask(d)

C4_Witness ==
    /\ Done /\ ~Hidden("hide_tasks")
    /\ \E d \in Graphs : Attached(d) = {} /\ WarnedNoTask(d)
    /\ \E d \in Graphs : Attached(d) # {} /\ At({"title.text"}, d) # {}

\* the task the task documenter ran for
Op == tasks[target]
IsStr(x) == x.t = "str"

\* C5: the custom documentation comes from at most one variant: with a str
\* doc_rst its lines are emitted and doc_md is not used, doc_md is converted
\* only without a str doc_rst; the :Operator: line follows in every case
C5_Claim ==
    pc = "task_done" =>
        /\ IsStr(Op.doc_rst) =>
              /\ TextsFrom("task.doc_rst", 1) = Op.doc_rst.v
              /\ TextsFrom("task.doc_md", 1) = <<>>
        /\ TextsFrom("task.doc_md", 1) # <<>> => ~IsStr(Op.doc_rst)
        /\ trace[Len(trace)].tag = "task.operator"
        /\ trace[Len(trace)].text
              = ":Operator: :class:'~" \o Op.module \o "." \o Op.type \o "'"

\* C6: a module without a graph: exactly one "Could not find a single DAG"
\* warning, the py:module directive and the converted docstring are emitted,
\* nothing of a diagram, a schedule or a task is, and no file is written
C6_NoDag ==
    (Done /\ Graphs = {}) =>
        /\ \E w \in 1..Len(trace) :
              /\ {i \in 1..Len(trace) : trace[i].ev = "warning"} = {w}
              /\ w = Len(trace)
              /\ trace[w].text
                    = "Could not find a single DAG in " \o rel_str(env.docname) \o ".rst"
        /\ trace[1].text = ".. py:module:: " \o module.fullname
        /\ TextsFrom("module.directive", 1) = <<".. py:module:: " \o module.fullname>>
        /\ TextsFrom("module.doc", 1)
              = IF module.doc = <<>> THEN <<>> ELSE m2r_convert(module.doc[1])
        /\ \A i \in 1..Len(trace) :
              /\ trace[i].ev \in {"line", "warning"}
              /\ trace[i].ev = "line" => trace[i].tag \in ModuleTags

C6_Witness ==
    /\ Done /\ Graphs = {}
    /\ module.doc # <<>>
    /\ "hide_tasks" \notin DOMAIN raw
    /\ \E i \in 1..Len(trace) : trace[i].tag = "module.doc" /\ trace[i].text = "Head"
    /\ trace[Len(trace)].ev = "warning"

\* C7: a hide_* option is False when absent and, given as a bare flag, makes
\* generate omit its section and leave the other two sections as they are
C7_Claim ==
    Done =>
        \A o \in {"hide_diagram", "hide_tasks", "hide_schedule"} :
            /\ o \notin DOMAIN raw => ~Hidden(o)
            /\ (o \in DOMAIN raw /\ raw[o] = PyNone) =>
                    \A d \in Graphs : At(SectionTags(o), d) = {}

\* C8: no step writes a graph or a task object or makes a new one
C8_Frame ==
    [][dags' = dags /\ tasks' = tasks /\ module' = module]_vars

C8_Witness ==
    /\ Done
    /\ \E i \in 1..Len(trace) :
         trace[i].ev = "write" /\ trace[i].data = PyStr(<<"Nightly">>)
    /\ \E i \in 1..Len(trace) : trace[i].tag = "task.doc_md"

\* C9: auto_doc is a fallback for doc_rst: its lines are emitted only for a
\* task without a str doc_rst
C9_Claim ==
    pc = "task_done" =>
        (TextsFrom("task.auto_doc", 1) # <<>> => ~IsStr(Op.doc_rst))

\* the place of graph d among the members of the module
MemberPos(d) ==
    CHOOSE k \in 1..Len(module.members) :
        module.members[k].kind = "DAG" /\ module.members[k].ref = d

\* the section a statement belongs to: 0 module, 1 diagram, 2 schedule, 3 tasks
Section(tag) ==
    CASE tag \in ModuleTags -> 0
      [] tag \in DiagramTags -> 1
      [] tag \in ScheduleTags -> 2
      [] OTHER -> 3

\* event a may come right before event b: the module's lines first, then the
\* graphs in member order, and within a graph its sections in order
InOrder(a, b) ==
    /\ b.tag \in ModuleTags => a.tag \in ModuleTags
    /\ b.dag = 0 => a.dag = 0
    /\ (a.dag # 0 /\ b.dag # 0) =>
          \/ MemberPos(a.dag) < MemberPos(b.dag)
          \/ /\ a.dag = b.dag
             /\ Section(a.tag) <= Section(b.tag)

\* C10: the py:module directive and the converted docstring come first and
\* once; then graph after graph in member order, never interleaved, each with
\* its diagram before its schedule before its tasks, whose Tasks header comes
\* once and before the first task block
C10_Order ==
    Done =>
        /\ trace[1].tag = "module.directive"
        /\ Cardinality({i \in 1..Len(trace) : trace[i].tag = "module.directive"}) = 1
        /\ TextsFrom("module.doc", 1)
              = IF module.doc = <<>> THEN <<>> ELSE m2r_convert(module.doc[1])
        /\ \A i \in 1..(Len(trace) - 1) : InOrder(trace[i], trace[i + 1])
        /\ \A d \in Graphs :
              /\ Cardinality(At({"title.text"}, d)) <= 1
              /\ \A b \in At({"task.super"}, d) :
                    \E h \in At({"title.text"}, d) :
                        h < b /\ trace[h].text = "Tasks"

C10_Witness ==
    /\ Done
    /\ Cardinality(Graphs) = 2
    /\ module.doc # <<>>
    /\ \A d \in Graphs :
         /\ At(DiagramTags, d) # {}
         /\ At(ScheduleTags, d) # {}
         /\ At({"task.operator"}, d) # {}

====
